---- MODULE Spec2Model ----
(***************************************************************************)
(* Model of workflow/scripts/download_sigs.py: the cache split (step 2),   *)
(* the concurrent download_sig tasks gathered by collect() (step 3), the   *)
(* handling of the gathered results and the writing of the catalog         *)
(* (step 4).  The final files, the temporary files and the catalog are     *)
(* part of the state; the remote service and the connection pool of the    *)
(* httpx client are the environment of the tasks.                          *)
(***************************************************************************)
EXTENDS Integers, Sequences, FiniteSets, TLC

\* Bounds of the model.
NumIds == 3
BodyLen == 2
MaxDownloaders == 2

Ids == 1..NumIds

VARIABLES
  sraids,              \* step 1: the set of SRA ids read from the runinfo table
  max_downloaders,     \* snakemake.config['max_downloaders']
  skip_download,       \* snakemake.config.get('skip_download', True)
  file,                \* the file at <wort_sigs>/<id>.sig of every id
  tmp,                 \* the NamedTemporaryFile of every task (delete=False)
  sig_paths,           \* step 2: paths found in the cache (as ids)
  sraids_to_download,  \* step 2: ids without a file in the cache
  phase,               \* position of the script
  pc,                  \* position of every download_sig task
  result,              \* what gather() holds for every task
  remote,              \* the status wort answered for an id, once asked
  towrite,             \* step 4: paths the loop has not visited yet
  manifest,            \* lines written to snakemake.output[0]
  run,                 \* 1 for the first execution of the script, 2 for a re-run
  prev,                \* what the previous execution left, for a re-run
  stream_status        \* the status the streaming GET of an id got, once answered

vars == <<sraids, max_downloaders, skip_download, file, tmp, sig_paths,
          sraids_to_download, phase, pc, result, remote, towrite, manifest,
          run, prev,
                 stream_status>>

----------------------------------------------------------------------------
\* Files and bodies.

NoFile == [exists |-> FALSE, data |-> <<>>]
FileOf(d) == [exists |-> TRUE, data |-> d]

\* The body the object store serves for an id, as a sequence of raw chunks.
Body(i) == [k \in 1..BodyLen |-> 10 * i + k]

\* Path.exists() of <wort_sigs>/<id>.sig
PathExists(f, i) == f[i].exists

\* step 2, the two branches of the loop over sraids
ToDownloadAll(ids, f) == ids

SigPaths(ids, f) == {i \in ids : PathExists(f, i)}
ToDownload(ids, f) == {i \in ids : ~PathExists(f, i)}

\* not (response.is_redirect or response.is_success): return None
IsFoundAlways(st) == TRUE

IsFound(st) == st \in {"redirect", "success"}

\* response.next_request is set for a redirect only
HasNextRequest(st) == st = "redirect"

\* sig_path = Path(config['wort_sigs']) / f"{sraid}.sig" inside download_sig
DestOfOther(i) == (i % NumIds) + 1

DestOf(i) == i

\* Tasks that hold one of the max_connections connections of the client.
PoolFreeAlways == TRUE

Holders == {i \in Ids : pc[i] \in {"resolving", "stream_req", "streaming"}}
PoolFree == Cardinality(Holders) < max_downloaders

\* Tasks that have started resolution and have no outcome yet.
InFlight == {i \in Ids : pc[i] \in {"resolving", "wait_stream", "stream_req",
                                    "streaming", "flushed", "copying"}}

----------------------------------------------------------------------------
Init ==
  /\ sraids \in SUBSET Ids
  /\ max_downloaders \in 1..MaxDownloaders
  /\ skip_download \in BOOLEAN
  /\ \E cached \in SUBSET Ids :
       file = [i \in Ids |-> IF i \in cached THEN FileOf(Body(i)) ELSE NoFile]
  /\ tmp = [i \in Ids |-> NoFile]
  /\ sig_paths = {}
  /\ sraids_to_download = {}
  /\ phase = "step2"
  /\ pc = [i \in Ids |-> "idle"]
  /\ result = [i \in Ids |-> "pending"]
  /\ remote = [i \in Ids |-> "unknown"]
  /\ towrite = {}
  /\ manifest = {}
  /\ run = 1
  /\ prev = [written |-> FALSE, manifest |-> {}, had |-> {}]
  /\ stream_status = [i \in Ids |-> "none"]

\* step 2: find what sigs are already downloaded
Split ==
  /\ phase = "step2"
  /\ sig_paths' = SigPaths(sraids, file)
  /\ sraids_to_download' = ToDownload(sraids, file)
  /\ phase' = "step3"
  /\ UNCHANGED <<sraids, max_downloaders, skip_download, file, tmp, pc, result,
                 remote, towrite, manifest, run, prev,
                 stream_status>>

\* skip_download set: step 3 is not entered
SkipDownloadIgnored ==
  /\ phase = "step3"
  /\ skip_download
  /\ phase' = "fetch"
  /\ pc' = [i \in Ids |-> IF i \in sraids_to_download THEN "start" ELSE "idle"]
  /\ UNCHANGED <<sraids, max_downloaders, skip_download, file, tmp, sig_paths,
                 sraids_to_download, result, remote, towrite, manifest, run,
                 prev, stream_status>>

SkipDownload ==
  /\ phase = "step3"
  /\ skip_download
  /\ phase' = "step4"
  /\ UNCHANGED <<sraids, max_downloaders, skip_download, file, tmp, sig_paths,
                 sraids_to_download, pc, result, remote, towrite, manifest,
                 run, prev,
                 stream_status>>

\* collect(): one download_sig task per id to download, all handed to gather
StartCollect ==
  /\ phase = "step3"
  /\ ~skip_download
  /\ phase' = "fetch"
  /\ pc' = [i \in Ids |-> IF i \in sraids_to_download THEN "start" ELSE "idle"]
  /\ UNCHANGED <<sraids, max_downloaders, skip_download, file, tmp, sig_paths,
                 sraids_to_download, result, remote, towrite, manifest, run,
                 prev,
                 stream_status>>

----------------------------------------------------------------------------
\* A download_sig task (one per id of sraids_to_download), step by step.

\* An exception leaves download_sig: gather(return_exceptions=True) keeps it as
\* the result of that task and leaves the other tasks alone.
RaiseCancelling(i) ==
  /\ pc' = [j \in Ids |-> IF pc[j] = "idle" THEN "idle" ELSE "done"]
  /\ result' = [j \in Ids |-> IF j = i \/ (pc[j] # "idle" /\ result[j] = "pending")
                              THEN "Exc" ELSE result[j]]

Raise(i) ==
  /\ pc' = [pc EXCEPT ![i] = "done"]
  /\ result' = [result EXCEPT ![i] = "Exc"]

\* client.get(...) obtains a connection of the pool
AcquireResolve(i) ==
  /\ phase = "fetch"
  /\ pc[i] = "start"
  /\ PoolFree
  /\ pc' = [pc EXCEPT ![i] = "resolving"]
  /\ UNCHANGED <<sraids, max_downloaders, skip_download, file, tmp, sig_paths,
                 sraids_to_download, phase, result, remote, towrite, manifest,
                 run, prev,
                 stream_status>>

\* the response of wort arrives (the connection goes back to the pool)
ResolveResponse(i, st) ==
  /\ phase = "fetch"
  /\ pc[i] = "resolving"
  /\ st \in (IF remote[i] = "unknown" THEN {"notfound", "redirect", "success"}
                                      ELSE {remote[i]})
  /\ remote' = [remote EXCEPT ![i] = st]
  /\ IF ~IsFound(st)
       THEN /\ pc' = [pc EXCEPT ![i] = "done"]
            /\ result' = [result EXCEPT ![i] = "None"]
       ELSE IF HasNextRequest(st)
         THEN /\ pc' = [pc EXCEPT ![i] = "wait_stream"]
              /\ result' = result
         ELSE Raise(i)     \* request is None: request.url raises AttributeError
  /\ UNCHANGED <<sraids, max_downloaders, skip_download, file, tmp, sig_paths,
                 sraids_to_download, phase, towrite, manifest, run, prev,
                 stream_status>>

\* no connection of the pool became free within the timeout (PoolTimeout)
PoolTimeout(i) ==
  /\ phase = "fetch"
  /\ pc[i] \in {"start", "wait_stream"}
  /\ ~PoolFree
  /\ Raise(i)
  /\ UNCHANGED <<sraids, max_downloaders, skip_download, file, tmp, sig_paths,
                 sraids_to_download, phase, remote, towrite, manifest, run,
                 prev,
                 stream_status>>

\* a network error or timeout while a request or the body stream is in progress,
\* or a failed write to the temporary file
TransientErrorStreamOnly(i) ==
  /\ phase = "fetch"
  /\ pc[i] \in {"stream_req", "streaming"}
  /\ Raise(i)
  /\ UNCHANGED <<sraids, max_downloaders, skip_download, file, tmp, sig_paths,
                 sraids_to_download, phase, remote, towrite, manifest, run,
                 prev, stream_status>>

TransientError(i) ==
  /\ phase = "fetch"
  /\ pc[i] \in {"resolving", "stream_req", "streaming"}
  /\ Raise(i)
  /\ UNCHANGED <<sraids, max_downloaders, skip_download, file, tmp, sig_paths,
                 sraids_to_download, phase, remote, towrite, manifest, run,
                 prev,
                 stream_status>>

\* client.stream('GET', request.url) obtains a connection of the pool
AcquireStream(i) ==
  /\ phase = "fetch"
  /\ pc[i] = "wait_stream"
  /\ PoolFree
  /\ pc' = [pc EXCEPT ![i] = "stream_req"]
  /\ UNCHANGED <<sraids, max_downloaders, skip_download, file, tmp, sig_paths,
                 sraids_to_download, phase, result, remote, towrite, manifest,
                 run, prev,
                 stream_status>>

\* response.raise_for_status(): raises unless the status is a success
StatusNeverRaises(ok) == FALSE

StatusRaises(ok) == ~ok

\* the headers of the stream arrive: raise_for_status(), then the temporary
\* file is created
StreamHeaders(i, ok) ==
  /\ phase = "fetch"
  /\ pc[i] = "stream_req"
  /\ stream_status' = [stream_status EXCEPT ![i] = IF ok THEN "ok" ELSE "error"]
  /\ IF StatusRaises(ok)
       THEN /\ Raise(i)
            /\ tmp' = tmp
       ELSE /\ pc' = [pc EXCEPT ![i] = "streaming"]
            /\ result' = result
            /\ tmp' = [tmp EXCEPT ![i] = FileOf(<<>>)]
  /\ UNCHANGED <<sraids, max_downloaders, skip_download, file, sig_paths,
                 sraids_to_download, phase, remote, towrite, manifest, run,
                 prev>>

\* async for chnk in response.aiter_raw(): await f.write(chnk)
RecvChunk(i) ==
  /\ phase = "fetch"
  /\ pc[i] = "streaming"
  /\ Len(tmp[i].data) < BodyLen
  /\ tmp' = [tmp EXCEPT ![i] = FileOf(Append(tmp[i].data,
                                             Body(i)[Len(tmp[i].data) + 1]))]
  /\ UNCHANGED <<sraids, max_downloaders, skip_download, file, sig_paths,
                 sraids_to_download, phase, pc, result, remote, towrite,
                 manifest, run, prev,
                 stream_status>>

\* the stream is exhausted (the connection goes back to the pool); f.flush()
EndOfStream(i) ==
  /\ phase = "fetch"
  /\ pc[i] = "streaming"
  /\ Len(tmp[i].data) = BodyLen
  /\ pc' = [pc EXCEPT ![i] = "flushed"]
  /\ UNCHANGED <<sraids, max_downloaders, skip_download, file, tmp, sig_paths,
                 sraids_to_download, phase, result, remote, towrite, manifest,
                 run, prev,
                 stream_status>>

\* shutil.copyfile(f.name, sig_path) in a thread: opens sig_path for writing
CopyOpen(i) ==
  /\ phase = "fetch"
  /\ pc[i] = "flushed"
  /\ file' = [file EXCEPT ![DestOf(i)] = FileOf(<<>>)]
  /\ pc' = [pc EXCEPT ![i] = "copying"]
  /\ UNCHANGED <<sraids, max_downloaders, skip_download, tmp, sig_paths,
                 sraids_to_download, phase, result, remote, towrite, manifest,
                 run, prev,
                 stream_status>>

\* shutil.copyfile copies the next block of the temporary file
CopyChunk(i) ==
  /\ phase = "fetch"
  /\ pc[i] = "copying"
  /\ Len(file[DestOf(i)].data) < Len(tmp[i].data)
  /\ file' = [file EXCEPT ![DestOf(i)] =
                FileOf(Append(file[DestOf(i)].data,
                              tmp[i].data[Len(file[DestOf(i)].data) + 1]))]
  /\ UNCHANGED <<sraids, max_downloaders, skip_download, tmp, sig_paths,
                 sraids_to_download, phase, pc, result, remote, towrite,
                 manifest, run, prev,
                 stream_status>>

\* shutil.copyfile is through: return sig_path (a Path)
CopyDone(i) ==
  /\ phase = "fetch"
  /\ pc[i] = "copying"
  /\ Len(file[DestOf(i)].data) >= Len(tmp[i].data)
  /\ pc' = [pc EXCEPT ![i] = "done"]
  /\ result' = [result EXCEPT ![i] = "Path"]
  /\ UNCHANGED <<sraids, max_downloaders, skip_download, file, tmp, sig_paths,
                 sraids_to_download, phase, remote, towrite, manifest, run,
                 prev,
                 stream_status>>

----------------------------------------------------------------------------
\* gather() has every result; the loop over the results.  None is skipped, an
\* exception is printed and raised, a str adds the variable sig_path, which
\* still holds the last path of the loop of step 2; a Path matches no branch.
HandleResults ==
  /\ phase = "fetch"
  /\ \A i \in sraids_to_download : pc[i] = "done"
  /\ IF \E i \in sraids_to_download : result[i] = "Exc"
       THEN /\ phase' = "aborted"
            /\ sig_paths' = sig_paths
       ELSE /\ phase' = "step4"
            /\ IF \E i \in sraids_to_download : result[i] = "Str"
                 THEN \E stale \in sraids : sig_paths' = sig_paths \cup {stale}
                 ELSE sig_paths' = sig_paths
  /\ UNCHANGED <<sraids, max_downloaders, skip_download, file, tmp,
                 sraids_to_download, pc, result, remote, towrite, manifest,
                 run, prev,
                 stream_status>>

\* step 4: open(snakemake.output[0], 'w')
OpenManifest ==
  /\ phase = "step4"
  /\ phase' = "writing"
  /\ towrite' = sig_paths
  /\ manifest' = {}
  /\ UNCHANGED <<sraids, max_downloaders, skip_download, file, tmp, sig_paths,
                 sraids_to_download, pc, result, remote, run, prev,
                 stream_status>>

\* if sig_path.exists(): fout.write(...)
ManifestLinesUnchecked(f, i) == {i}

ManifestLines(f, i) == IF PathExists(f, i) THEN {i} ELSE {}

\* one pass of the loop of step 4
WriteLine(i) ==
  /\ phase = "writing"
  /\ i \in towrite
  /\ towrite' = towrite \ {i}
  /\ manifest' = manifest \cup ManifestLines(file, i)
  /\ UNCHANGED <<sraids, max_downloaders, skip_download, file, tmp, sig_paths,
                 sraids_to_download, phase, pc, result, remote, run, prev,
                 stream_status>>

\* the loop of step 4 is through: the catalog is closed, the script ends
CloseManifest ==
  /\ phase = "writing"
  /\ towrite = {}
  /\ phase' = "done"
  /\ UNCHANGED <<sraids, max_downloaders, skip_download, file, tmp, sig_paths,
                 sraids_to_download, pc, result, remote, towrite, manifest,
                 run, prev,
                 stream_status>>

----------------------------------------------------------------------------
\* The environment.

\* the process is killed while the tasks run
Crash ==
  /\ phase = "fetch"
  /\ phase' = "crashed"
  /\ UNCHANGED <<sraids, max_downloaders, skip_download, file, tmp, sig_paths,
                 sraids_to_download, pc, result, remote, towrite, manifest,
                 run, prev,
                 stream_status>>

\* a file the split found in the cache is deleted by someone else
ExternalDelete(i) ==
  /\ phase \in {"step3", "fetch", "step4", "writing"}
  /\ i \in sig_paths
  /\ PathExists(file, i)
  /\ file' = [file EXCEPT ![i] = NoFile]
  /\ UNCHANGED <<sraids, max_downloaders, skip_download, tmp, sig_paths,
                 sraids_to_download, phase, pc, result, remote, towrite,
                 manifest, run, prev,
                 stream_status>>

\* the script is executed once more: same table, same configuration, same
\* cache directory, same remote
Restart ==
  /\ run = 1
  /\ phase \in {"done", "aborted"}
  /\ run' = 2
  /\ prev' = [written |-> phase = "done",
              manifest |-> manifest,
              had |-> sig_paths \cup
                      {i \in sraids_to_download : result[i] = "Path"}]
  /\ phase' = "step2"
  /\ sig_paths' = {}
  /\ sraids_to_download' = {}
  /\ pc' = [i \in Ids |-> "idle"]
  /\ result' = [i \in Ids |-> "pending"]
  /\ tmp' = [i \in Ids |-> NoFile]
  /\ towrite' = {}
  /\ stream_status' = [i \in Ids |-> "none"]
  /\ UNCHANGED <<sraids, max_downloaders, skip_download, file, remote, manifest>>

----------------------------------------------------------------------------
Task(i) ==
  \/ AcquireResolve(i)
  \/ \E st \in {"notfound", "redirect", "success"} : ResolveResponse(i, st)
  \/ PoolTimeout(i)
  \/ TransientError(i)
  \/ AcquireStream(i)
  \/ \E ok \in BOOLEAN : StreamHeaders(i, ok)
  \/ RecvChunk(i)
  \/ EndOfStream(i)
  \/ CopyOpen(i)
  \/ CopyChunk(i)
  \/ CopyDone(i)

Script ==
  \/ Split
  \/ SkipDownload
  \/ StartCollect
  \/ \E i \in Ids : Task(i)
  \/ HandleResults
  \/ OpenManifest
  \/ \E i \in Ids : WriteLine(i)
  \/ CloseManifest

Next ==
  \/ Script
  \/ Crash
  \/ \E i \in Ids : ExternalDelete(i)

\* One execution of the script in an environment that may kill it and may
\* delete cached files.
Spec == Init /\ [][Next]_vars

\* One execution with nobody else touching the cache and the process left
\* alone.
SpecAlone == Init /\ [][Script]_vars

\* What the event loop and the client guarantee: the script and the copy
\* thread keep running, a task waiting for a connection gets one or its pool
\* timeout, and a request or stream that stays pending runs into the timeout
\* of the client (timeout=30.0).  Nothing is assumed of the remote: it may
\* leave a request or a stream unanswered for ever.
Fairness ==
  /\ WF_vars(Split \/ SkipDownload \/ StartCollect \/ HandleResults
               \/ OpenManifest \/ (\E i \in Ids : WriteLine(i))
               \/ CloseManifest)
  /\ \A i \in Ids :
       WF_vars(\/ AcquireResolve(i) \/ AcquireStream(i) \/ PoolTimeout(i)
               \/ TransientError(i)
               \/ CopyOpen(i) \/ CopyChunk(i) \/ CopyDone(i))

\* The state before step 2 with every id in the table (an id outside the table
\* takes no part in a run: no task, no line).
InitFullTable == Init /\ sraids = Ids

\* One execution, left alone, under the guarantees above.
LiveSpec == InitFullTable /\ [][Script]_vars /\ Fairness

NextTwice ==
  \/ Script
  \/ Restart

\* Two executions in a row, nothing else touching the cache.
SpecTwice == Init /\ [][NextTwice]_vars
----------------------------------------------------------------------------
\* Claims.

\* C1: the file at the final path of an id is either missing or holds the
\* complete remote body; a partly written file is never there.
C1_FinalPathNeverPartial ==
  \A i \in Ids : file[i] = NoFile \/ file[i] = FileOf(Body(i))

\* C2: the catalog written at the end of a run holds exactly the paths found
\* in the cache and the paths of the ids fetched in the run, as far as the
\* files still exist.
C2_ManifestIsCachedPlusFetched ==
  phase = "done" =>
    LET fetched == {i \in sraids_to_download : result[i] = "Path"}
        cand == sig_paths \cup fetched
    IN  /\ manifest \subseteq cand
        /\ \A i \in cand : PathExists(file, i) => i \in manifest

\* C3: ids that failed or were not found never keep the run from writing the
\* catalog: the run does not unwind out of the loop over the results.
C3_FailuresNeverUnwind ==
  (\E i \in sraids_to_download : result[i] \in {"Exc", "None"})
    => phase # "aborted"

\* C4: at most max_downloaders ids are in flight (resolution started, no
\* outcome yet) at any time.
C4_InFlightWithinLimit == Cardinality(InFlight) <= max_downloaders

\* C5: a task that fails changes no other task, and once gather has returned
\* every task has its outcome and every task whose resolution and stream went
\* through has its complete file at the final path.
C5_FailureIsolated ==
  /\ [](phase \in {"step4", "writing", "done", "aborted"} /\ ~skip_download
          => \A i \in sraids_to_download :
               /\ pc[i] = "done"
               /\ result[i] # "pending"
               /\ (result[i] # "Exc" /\ tmp[i] = FileOf(Body(i))
                     => result[i] = "Path" /\ file[i] = FileOf(Body(i))))
  /\ [][\A i \in Ids :
          result[i] = "pending" /\ result'[i] = "Exc"
            => \A j \in Ids \ {i} :
                 /\ pc'[j] = pc[j]
                 /\ result'[j] = result[j]
                 /\ tmp'[j] = tmp[j]
                 /\ file'[j] = file[j]]_vars

\* C5 happens: a run in which one task failed and another published its file.
C5_Witness ==
  /\ phase = "aborted"
  /\ \E i, j \in sraids_to_download :
       /\ result[i] = "Exc"
       /\ result[j] = "Path"
       /\ file[j] = FileOf(Body(j))

\* C6: a second run with the same table and the same remote writes the same
\* catalog as the first and fetches nothing the first run fetched or found
\* in the cache.
C6_SecondRunSameManifest ==
  (run = 2 /\ phase = "done" /\ prev.written)
    => /\ manifest = prev.manifest
       /\ sraids_to_download \cap prev.had = {}

\* C7: the split puts every id of the table in exactly one of sig_paths (its
\* file exists) and sraids_to_download (it does not).
C7_SplitPartitions ==
  /\ [](phase # "step2"
          => /\ sig_paths \cap sraids_to_download = {}
             /\ sig_paths \cup sraids_to_download = sraids)
  /\ [][phase = "step2" /\ phase' = "step3"
          => \A i \in sraids :
               /\ i \in sig_paths' <=> file[i].exists
               /\ i \in sraids_to_download' <=> ~file[i].exists]_vars

\* C7 happens: a split with ids on both sides.
C7_Witness ==
  /\ phase = "step3"
  /\ sig_paths # {}
  /\ sraids_to_download # {}

\* C8: an id wort answered with neither success nor redirect gets no file at
\* its final path and no line in the catalog.
C8_NotFoundNeverListed ==
  \A i \in Ids :
    remote[i] = "notfound" => file[i] = NoFile /\ i \notin manifest

\* C8 happens: a catalog with lines, written by a run in which an id was not
\* found while another was fetched.
C8_Witness ==
  /\ phase = "done"
  /\ manifest # {}
  /\ \E i, j \in sraids_to_download :
       remote[i] = "notfound" /\ result[i] = "None" /\ result[j] = "Path"

\* C9: after a run in which the stream of an id broke off with part of the
\* body received, there is no file at its final path, its outcome is a
\* failure, and the catalog the run wrote does not hold its path.
C9_BrokenStreamExcluded ==
  \A i \in Ids :
    (/\ phase \in {"done", "aborted"}
     /\ pc[i] = "done"
     /\ tmp[i].exists
     /\ 0 < Len(tmp[i].data)
     /\ Len(tmp[i].data) < BodyLen)
      => /\ file[i] = NoFile
         /\ result[i] = "Exc"
         /\ phase = "done"
         /\ i \notin manifest

\* C10: a line is written to the catalog only for a path whose file exists at
\* that moment.
C10_WrittenPathsExist ==
  [][\A i \in manifest' \ manifest : PathExists(file, i)]_vars

\* C10 happens: a cached file was deleted after the split and the catalog was
\* written without it.
C10_Witness ==
  /\ phase = "done"
  /\ manifest # {}
  /\ \E i \in sig_paths : ~PathExists(file, i) /\ i \notin manifest

\* C11: every task follows Pending -> Resolving -> {NotFound | Fetching} ->
\* {Fetched | Failed | NotFoundRemotely}: it streams only after a redirect,
\* an id answered not-found ends with None, every id to download has one
\* outcome when gather has returned, and a task with an outcome moves no more.
C11_TaskStateMachine ==
  /\ [](\A i \in Ids :
          (\/ pc[i] \in {"wait_stream", "stream_req", "streaming", "flushed",
                         "copying"}
           \/ stream_status[i] # "none"
           \/ tmp[i].exists)
            => remote[i] = "redirect")
  /\ [](\A i \in Ids :
          remote[i] = "notfound" => pc[i] = "done" /\ result[i] = "None")
  /\ [](\A i \in Ids :
          /\ pc[i] = "done" <=> result[i] \in {"None", "Exc", "Path"}
          /\ pc[i] # "done" <=> result[i] = "pending"
          /\ (phase \in {"step4", "writing", "done", "aborted"}
                /\ ~skip_download /\ i \in sraids_to_download)
               => pc[i] = "done")
  /\ [][\A i \in Ids :
          /\ pc[i] = "done" => pc'[i] = "done" /\ result'[i] = result[i]
          /\ <<pc[i], pc'[i]>> \in
               {<<"idle", "idle">>, <<"idle", "start">>,
                <<"start", "start">>, <<"start", "resolving">>,
                <<"start", "done">>,
                <<"resolving", "resolving">>, <<"resolving", "wait_stream">>,
                <<"resolving", "done">>,
                <<"wait_stream", "wait_stream">>,
                <<"wait_stream", "stream_req">>, <<"wait_stream", "done">>,
                <<"stream_req", "stream_req">>, <<"stream_req", "streaming">>,
                <<"stream_req", "done">>,
                <<"streaming", "streaming">>, <<"streaming", "flushed">>,
                <<"streaming", "done">>,
                <<"flushed", "flushed">>, <<"flushed", "copying">>,
                <<"copying", "copying">>, <<"copying", "done">>,
                <<"done", "done">>}
          /\ (pc[i] = "copying" /\ pc'[i] = "done") => result'[i] = "Path"
          /\ (pc[i] \notin {"copying", "done"} /\ pc'[i] = "done")
               => result'[i] \in {"None", "Exc"}]_vars

\* C11 happens: a run whose three tasks ended with the three outcomes.
C11_Witness ==
  /\ phase = "aborted"
  /\ \E i, j, k \in sraids_to_download :
       /\ result[i] = "None" /\ remote[i] = "notfound"
       /\ result[j] = "Exc"
       /\ result[k] = "Path" /\ remote[k] = "redirect"

\* C12: when the resolution response is a success or a redirect the task goes
\* on to stream (a plain success does not end in an error); any other status
\* ends the task with None.
C12_SuccessOrRedirectStreams ==
  [][\A i \in Ids :
       (pc[i] = "resolving" /\ remote[i] = "unknown")
         => /\ remote'[i] \in {"redirect", "success"} => pc'[i] = "wait_stream"
            /\ remote'[i] = "notfound" => result'[i] = "None"]_vars

\* C13: an id whose streaming GET was answered with a non-success status ends
\* with an exception, not with None or a path, and has no file at its final
\* path.
C13_BadStreamStatusFails ==
  \A i \in Ids :
    stream_status[i] = "error"
      => pc[i] = "done" /\ result[i] = "Exc" /\ file[i] = NoFile

\* C13 happens: gather returned with a task whose stream was refused.
C13_Witness ==
  /\ phase = "aborted"
  /\ \E i \in sraids_to_download :
       remote[i] = "redirect" /\ stream_status[i] = "error"

\* C14: a task waits on its own network I/O only, so a task that is waiting
\* to be served (no request of its own in progress) never fails there: what
\* the other tasks do cannot turn an id the remote would serve into a failure.
C14_WaitingTaskNeverFails ==
  [][\A i \in Ids :
       pc[i] \in {"start", "wait_stream"} => result'[i] = result[i]]_vars

\* C16: the run changes the final path of an id only from the task of that id,
\* starting from a path that does not exist; a file the split found in the
\* cache keeps its content (it can only be deleted from outside).
C16_OnlyOwnFinalPath ==
  [][\A j \in Ids :
       file'[j] # file[j]
         => \/ /\ j \in sraids_to_download
               /\ pc[j] \in {"flushed", "copying"}
               /\ pc[j] = "flushed" => file[j] = NoFile
               /\ \A k \in Ids \ {j} : file'[k] = file[k]
            \/ /\ j \in sig_paths
               /\ pc[j] = "idle"
               /\ file'[j] = NoFile]_vars

\* C16 happens: a run that fetched a file next to a cached one, which is intact.
C16_Witness ==
  /\ phase = "done"
  /\ \E i \in sig_paths, j \in sraids_to_download :
       /\ file[i] = FileOf(Body(i))
       /\ result[j] = "Path"
       /\ file[j] = FileOf(Body(j))

\* C17: a task that has its outcome has left no temporary file.
C17_NoTemporaryFileLeft ==
  \A i \in Ids : pc[i] = "done" => ~tmp[i].exists

\* C18: with skip_download set no request is made, no file is created, and the
\* catalog holds exactly the paths the split found in the cache.
C18_SkipFetchesNothing ==
  /\ [](skip_download =>
          /\ \A i \in Ids :
               /\ pc[i] = "idle"
               /\ remote[i] = "unknown"
               /\ stream_status[i] = "none"
               /\ ~tmp[i].exists
          /\ phase = "done" => manifest = sig_paths)
  /\ [][skip_download => file' = file]_vars

\* C18 happens: a skipping run wrote a catalog though ids were missing.
C18_Witness ==
  /\ skip_download
  /\ phase = "done"
  /\ manifest # {}
  /\ sraids_to_download # {}

\* C19: the connections in use (resolution requests and body streams in
\* progress) never exceed max_downloaders.
C19_ConnectionsWithinLimit == Cardinality(Holders) <= max_downloaders

\* C19 happens: every connection is in use and a task waits for one.
C19_Witness ==
  /\ Cardinality(Holders) = max_downloaders
  /\ max_downloaders > 1
  /\ \E i \in Ids : pc[i] \in {"start", "wait_stream"}

\* C15: a run that fetches ends, and every task gets its outcome, also when
\* the remote leaves requests or streams unanswered: the timeout of the client
\* ends them with an exception.
C15_RunTerminates ==
  /\ <>(phase \in {"done", "aborted"})
  /\ [](phase \in {"done", "aborted"} /\ ~skip_download
          => \A i \in sraids_to_download :
               pc[i] = "done" /\ result[i] \in {"None", "Exc", "Path"})

\* C15 happens: a run ended in which a resolution request was never answered
\* and its task has an exception, next to a task that fetched its file.
C15_Witness ==
  /\ phase = "aborted"
  /\ \E i, j \in sraids_to_download :
       /\ remote[i] = "unknown" /\ result[i] = "Exc"
       /\ result[j] = "Path"
====
